---------------------------- MODULE Spec2Model ----------------------------
(***************************************************************************)
(* Model of applications/mapConservativeFields/mapConservativeFields.C of  *)
(* dynamicTopoFvMesh: the analytic test-field builder, the boundary        *)
(* re-initialisation, the error analysis, the cyclic remap test, the       *)
(* single-map test, the production field mapper and main().                *)
(*                                                                         *)
(* Number representation.  Coordinates are integers in units of 1/4, so    *)
(* that sin(2*pi*x) and cos(2*pi*x) are exact (0, 1, 0, -1).  Scalar field *)
(* values are integers in units of 1/4 as well (Fix(1) is 1.0).  The mesh  *)
(* points used are those where r/L of the cosine hill is a multiple of     *)
(* 1/2, so that cos(pi*r/L) and sin(pi*r/L) are exact too.  A gradient     *)
(* vector is [u, v]: the integer triple v times the unit u, one of "1",    *)
(* "2pi", "pi"; the unit "nan" is the IEEE result of 0 * infinity.         *)
(***************************************************************************)
EXTENDS Integers, Sequences, FiniteSets, TLC

(***************************************************************************)
(* Bounds of the model                                                     *)
(***************************************************************************)
\* largest cycle count handed to testCyclicRemap by a direct call
MaxCycles == 3
\* number of unit-level calls applied in a row by the pure-function driver
MaxUnitSteps == 3

(***************************************************************************)
(* Program constants                                                       *)
(***************************************************************************)
constScalVal == 2
\* the cycle count main() passes to testCyclicRemap
MainCycles == 250

Kinds == {"CONSTANT", "LINEAR", "SINUSOID_2D", "SINUSOID_3D", "COSINE_HILL_2D"}
\* an enumerant outside testType (a cast integer)
AllKinds == Kinds \cup {"UNKNOWN"}

Methods == {"CONSERVATIVE", "INVERSE_DISTANCE", "CONSERVATIVE_FIRST_ORDER"}
AllMethods == Methods \cup {"OTHER"}

(***************************************************************************)
(* Arithmetic                                                              *)
(***************************************************************************)
Fix(n) == 4 * n
Abs(n) == IF n < 0 THEN -n ELSE n
Max2(a, b) == IF a < b THEN b ELSE a
\* exact square root; undefined (a TLC error) where it is not an integer
ISqrt(n) == CHOOSE k \in 0..n : k * k = n
\* sin(2 pi x) and cos(2 pi x), x in quarters
Sin2Pi(q) == <<0, 1, 0, -1>>[(q % 4) + 1]
Cos2Pi(q) == <<1, 0, -1, 0>>[(q % 4) + 1]
magSqr3(x) == x[1] * x[1] + x[2] * x[2] + x[3] * x[3]
\* pi*r/L for r = mag(x - hC), L = sqrt(2)/2, as a count of pi/4:
\* r/L = sqrt(2 magSqr(x - hC)), and x is in quarters
hC == <<0, 0, 0>>
RoverL(x) == ISqrt(2 * magSqr3(<<x[1] - hC[1], x[2] - hC[2], x[3] - hC[3]>>))
\* cos(pi r/L) and sin(pi r/L); RoverL is even on the points used
CosHill(x) == Cos2Pi(RoverL(x) \div 2)
SinHill(x) == Sin2Pi(RoverL(x) \div 2)

RECURSIVE SumSeq(_)
SumSeq(s) == IF s = <<>> THEN 0 ELSE Head(s) + SumSeq(Tail(s))
RECURSIVE MaxSeq(_)
MaxSeq(s) == IF s = <<>> THEN 0 ELSE Max2(Head(s), MaxSeq(Tail(s)))

(***************************************************************************)
(* Meshes: cell volumes V, cell centres C, boundary face centres Cf (one   *)
(* sequence per patch), number of geometric directions.                    *)
(***************************************************************************)
MeshA ==
    [name |-> "A", nGeometricD |-> 2,
     V |-> <<1, 2>>,
     C |-> << <<1, 1, 0>>, <<2, 2, 0>> >>,
     Cf |-> << << <<3, 3, 0>> >>, << <<-1, 1, 0>> >> >>]
\* one cell, centred on the hill centre
MeshB ==
    [name |-> "B", nGeometricD |-> 2,
     V |-> <<3>>,
     C |-> << <<0, 0, 0>> >>,
     Cf |-> << << <<1, -1, 0>> >> >>]
MeshC ==
    [name |-> "C", nGeometricD |-> 3,
     V |-> <<2, 1>>,
     C |-> << <<0, 1, 1>>, <<1, 0, 1>> >>,
     Cf |-> << << <<2, 0, 2>>, <<0, 0, 0>> >> >>]
MeshPairs == {<<MeshA, MeshB>>, <<MeshB, MeshA>>, <<MeshC, MeshA>>}

nCells(mesh) == Len(mesh.V)
CellIds(mesh) == 1..nCells(mesh)
PatchIds(mesh) == 1..Len(mesh.Cf)
FaceIds(mesh, p) == 1..Len(mesh.Cf[p])

(***************************************************************************)
(* Fields.  An autoPtr is [set |-> FALSE] when empty.                      *)
(***************************************************************************)
NoField == [set |-> FALSE]
ZeroVec == [u |-> "1", v |-> <<0, 0, 0>>]
NanVec == [u |-> "nan", v |-> <<0, 0, 0>>]

\* new volScalarField(IOobject("alpha", ..., NO_READ, NO_WRITE), mesh, 0.0,
\* "fixedValue")
NewScalarField(mesh) ==
    [set |-> TRUE, name |-> "alpha", mesh |-> mesh, bc |-> "fixedValue",
     internal |-> [c \in CellIds(mesh) |-> 0],
     boundary |-> [p \in PatchIds(mesh) |-> [f \in FaceIds(mesh, p) |-> 0]]]
\* new volVectorField(IOobject("grad(alpha)", ...), mesh, vector::zero,
\* "zeroGradient")
NewVectorField(mesh) ==
    [set |-> TRUE, name |-> "grad(alpha)", mesh |-> mesh, bc |-> "zeroGradient",
     internal |-> [c \in CellIds(mesh) |-> ZeroVec],
     boundary |-> [p \in PatchIds(mesh) |-> [f \in FaceIds(mesh, p) |-> ZeroVec]]]

\* gSum(mesh.V() * field.internalField())
gSumV(mesh, internal) ==
    SumSeq([c \in 1..Len(internal) |-> mesh.V[c] * internal[c]])


(***************************************************************************)
(* initBoundaryFields: the boundary values of the scalar field are set     *)
(* from the analytic model at the face centres; an enumerant outside       *)
(* testType aborts.                                                        *)
(***************************************************************************)
\* the value assigned to field.boundaryField()[patchI][faceI], x the face centre
bfValue(type, x) ==
    CASE type = "CONSTANT" -> Fix(constScalVal)
      [] type = "LINEAR" -> 2 * x[1] + 3 * x[2] + x[3]
      [] type = "SINUSOID_2D" -> Fix(1) + Fix(Sin2Pi(x[1]) * Sin2Pi(x[2]))
      [] type = "SINUSOID_3D" ->
            Fix(1) + Fix(Sin2Pi(x[1]) * Sin2Pi(x[2]) * Sin2Pi(x[3]))
      [] type = "COSINE_HILL_2D" -> Fix(2) + Fix(CosHill(x))

\* initBoundaryFields that assigns the cell values as well
initBoundaryFields_WithInterior(mesh, type, tField) ==
    IF type \in Kinds
    THEN [status |-> "ok",
          tField |->
            [tField EXCEPT
                !.internal =
                    [c \in DOMAIN tField.internal |-> bfValue(type, mesh.C[c])],
                !.boundary =
                    [p \in DOMAIN tField.boundary |->
                        [f \in DOMAIN tField.boundary[p] |->
                            bfValue(type, mesh.Cf[p][f])]]]]
    ELSE [status |-> "abort", tField |-> tField]

\* the result: [status, tField]; status "abort" is abort(FatalError)
initBoundaryFields(mesh, type, tField) ==
    IF type \in Kinds
    THEN [status |-> "ok",
          tField |->
            [tField EXCEPT !.boundary =
                [p \in DOMAIN tField.boundary |->
                    [f \in DOMAIN tField.boundary[p] |->
                        bfValue(type, mesh.Cf[p][f])]]]]
    ELSE [status |-> "abort", tField |-> tField]

(***************************************************************************)
(* initTestField: both handles are cleared and set to zero fields on the   *)
(* mesh; with populate the interior is set from the analytic model at the  *)
(* cell centres and the boundary by initBoundaryFields.                    *)
(***************************************************************************)
\* field[cellI], x the cell centre
cellValue(type, x) ==
    CASE type = "CONSTANT" -> Fix(constScalVal)
      [] type = "LINEAR" -> 2 * x[1] + 3 * x[2] + x[3]
      [] type = "SINUSOID_2D" -> Fix(1) + Fix(Sin2Pi(x[1]) * Sin2Pi(x[2]))
      [] type = "SINUSOID_3D" ->
            Fix(1) + Fix(Sin2Pi(x[1]) * Sin2Pi(x[2]) * Sin2Pi(x[3]))
      [] type = "COSINE_HILL_2D" -> Fix(2) + Fix(CosHill(x))

\* r = mag(x - hC) is zero: pi/(r*L) divides by zero
hillSingular(x) == RoverL(x) = 0

\* (pi/(r*L)) * (-sin(pi r/L) * x): with r*L = RoverL/8 and x in quarters this
\* is pi * (-2 sin(pi r/L) x / RoverL)
hillGrad(x) ==
    [u |-> "pi",
     v |-> [k \in 1..3 |-> (2 * (-(SinHill(x) * x[k]))) \div RoverL(x)]]

\* gfield[cellI], x the cell centre; the hill at r = 0 evaluates
\* (pi/0) * (-0 * 0), which without trapping is NaN
cellGrad(type, x) ==
    CASE type = "CONSTANT" -> [u |-> "1", v |-> <<0, 0, 0>>]
      [] type = "LINEAR" -> [u |-> "1", v |-> <<2, 3, 1>>]
      [] type = "SINUSOID_2D" ->
            [u |-> "2pi",
             v |-> <<Cos2Pi(x[1]) * Sin2Pi(x[2]),
                     Sin2Pi(x[1]) * Cos2Pi(x[2]),
                     0>>]
      [] type = "SINUSOID_3D" ->
            [u |-> "2pi",
             v |-> <<Cos2Pi(x[1]) * Sin2Pi(x[2]) * Sin2Pi(x[3]),
                     Sin2Pi(x[1]) * Cos2Pi(x[2]) * Sin2Pi(x[3]),
                     Sin2Pi(x[1]) * Sin2Pi(x[2]) * Cos2Pi(x[3])>>]
      [] type = "COSINE_HILL_2D" ->
            IF hillSingular(x) THEN NanVec ELSE hillGrad(x)

\* the cells at which the populate loop divides by r = 0
singularCells(mesh, type) ==
    IF type = "COSINE_HILL_2D"
    THEN {c \in CellIds(mesh) : hillSingular(mesh.C[c])}
    ELSE {}

\* the cells the populate loop has assigned when it stops: all of them, or
\* with a trapped floating-point exception those before the first singular one
populatedCells(mesh, type, fpe) ==
    IF fpe = "trap" /\ singularCells(mesh, type) # {}
    THEN {c \in CellIds(mesh) :
            \A d \in singularCells(mesh, type) : c < d}
    ELSE CellIds(mesh)

\* initTestField without the test of populate
initTestField_NoGuard(mesh, type, populate, fpe) ==
    LET zf == NewScalarField(mesh)
        zg == NewVectorField(mesh)
        done == populatedCells(mesh, type, fpe)
        pf == [zf EXCEPT !.internal =
                [c \in CellIds(mesh) |->
                    IF \A d \in CellIds(mesh) \ done : c <= d
                    THEN cellValue(type, mesh.C[c]) ELSE 0]]
        pg == [zg EXCEPT !.internal =
                [c \in CellIds(mesh) |->
                    IF c \in done THEN cellGrad(type, mesh.C[c]) ELSE ZeroVec]]
    IN  IF type \notin Kinds
        THEN [status |-> "abort", tField |-> zf, tgField |-> zg]
        ELSE IF done # CellIds(mesh)
        THEN [status |-> "sigfpe", tField |-> pf, tgField |-> pg]
        ELSE [status |-> "ok",
              tField |-> initBoundaryFields(mesh, type, pf).tField,
              tgField |-> pg]

\* the result: [status, tField, tgField].  fpe is what a floating-point
\* exception does in this run: "nan" (masked) or "trap" (SIGFPE).
initTestField(mesh, type, populate, fpe) ==
    LET zf == NewScalarField(mesh)
        zg == NewVectorField(mesh)
        done == populatedCells(mesh, type, fpe)
        \* field[cellI] is assigned before the gradient of the cell is evaluated
        pf == [zf EXCEPT !.internal =
                [c \in CellIds(mesh) |->
                    IF \A d \in CellIds(mesh) \ done : c <= d
                    THEN cellValue(type, mesh.C[c]) ELSE 0]]
        pg == [zg EXCEPT !.internal =
                [c \in CellIds(mesh) |->
                    IF c \in done THEN cellGrad(type, mesh.C[c]) ELSE ZeroVec]]
    IN  IF ~populate
        THEN [status |-> "ok", tField |-> zf, tgField |-> zg]
        ELSE IF type \notin Kinds
        THEN [status |-> "abort", tField |-> zf, tgField |-> zg]
        ELSE IF done # CellIds(mesh)
        THEN [status |-> "sigfpe", tField |-> pf, tgField |-> pg]
        ELSE [status |-> "ok",
              tField |-> initBoundaryFields(mesh, type, pf).tField,
              tgField |-> pg]

(***************************************************************************)
(* computeError: squared and maximum error of each field against the       *)
(* analytic value at the cell centres of its own mesh.  The switches have  *)
(* no default: for an enumerant outside testType sExact and tExact keep    *)
(* their initial 0.0.                                                      *)
(***************************************************************************)
\* sExact with the coefficients of the linear field exchanged
sExact_LinearSwapped(type, xC) ==
    CASE type = "CONSTANT" -> Fix(constScalVal)
      [] type = "LINEAR" -> 3 * xC[1] + 2 * xC[2] + xC[3]
      [] type = "SINUSOID_2D" -> Fix(1) + Fix(Sin2Pi(xC[1]) * Sin2Pi(xC[2]))
      [] type = "SINUSOID_3D" ->
            Fix(1) + Fix(Sin2Pi(xC[1]) * Sin2Pi(xC[2]) * Sin2Pi(xC[3]))
      [] type = "COSINE_HILL_2D" -> Fix(2) + Fix(CosHill(xC))
      [] OTHER -> 0

sExact(type, xC) ==
    CASE type = "CONSTANT" -> Fix(constScalVal)
      [] type = "LINEAR" -> 2 * xC[1] + 3 * xC[2] + xC[3]
      [] type = "SINUSOID_2D" -> Fix(1) + Fix(Sin2Pi(xC[1]) * Sin2Pi(xC[2]))
      [] type = "SINUSOID_3D" ->
            Fix(1) + Fix(Sin2Pi(xC[1]) * Sin2Pi(xC[2]) * Sin2Pi(xC[3]))
      [] type = "COSINE_HILL_2D" -> Fix(2) + Fix(CosHill(xC))
      [] OTHER -> 0

tExact(type, xC) ==
    CASE type = "CONSTANT" -> Fix(constScalVal)
      [] type = "LINEAR" -> 2 * xC[1] + 3 * xC[2] + xC[3]
      [] type = "SINUSOID_2D" -> Fix(1) + Fix(Sin2Pi(xC[1]) * Sin2Pi(xC[2]))
      [] type = "SINUSOID_3D" ->
            Fix(1) + Fix(Sin2Pi(xC[1]) * Sin2Pi(xC[2]) * Sin2Pi(xC[3]))
      [] type = "COSINE_HILL_2D" -> Fix(2) + Fix(CosHill(xC))
      [] OTHER -> 0

\* The two blocks written to Info, and iError.  The L2 error printed is
\* sqrt(sumSq/n) and dx is cbrt(1/n): both are kept as their arguments.
\* linf is in quarters, sumSq in sixteenths.
computeError(fieldSource, fieldTarget, type) ==
    LET isF == fieldSource.internal
        itF == fieldTarget.internal
        sC == fieldSource.mesh.C
        tC == fieldTarget.mesh.C
        sAbs == [c \in 1..Len(isF) |-> Abs(isF[c] - sExact(type, sC[c]))]
        tAbs == [c \in 1..Len(itF) |-> Abs(itF[c] - tExact(type, tC[c]))]
    IN  [source |-> [sumSq |-> SumSeq([c \in 1..Len(isF) |-> sAbs[c] * sAbs[c]]),
                     linf |-> MaxSeq(sAbs),
                     n |-> Len(isF)],
         target |-> [sumSq |-> SumSeq([c \in 1..Len(itF) |-> tAbs[c] * tAbs[c]]),
                     linf |-> MaxSeq(tAbs),
                     n |-> Len(itF)],
         iError |-> tAbs]


(***************************************************************************)
(* The external mapping operator, conservativeMeshToMesh.  Its constructor *)
(* keeps the two meshes; interpolate() overwrites the target field, its    *)
(* interior and its boundary, with values the harness does not control.    *)
(***************************************************************************)
NoMapper == [set |-> FALSE]
conservativeMeshToMesh(srcMesh, tgtMesh) ==
    [set |-> TRUE, srcMesh |-> srcMesh, tgtMesh |-> tgtMesh]

\* the values an interpolation may leave in a scalar field (0.0 and 10.0)
InterpVals == {0, Fix(10)}
\* the values an interpolation may leave in a vector field
InterpVecs == {<<0, 0, 0>>, <<Fix(3), Fix(4), 0>>}

\* the boundary values an interpolation may leave: one value on all faces
BoundaryFills(mesh, vals) ==
    {[p \in PatchIds(mesh) |-> [f \in FaceIds(mesh, p) |-> v]] : v \in vals}

\* every field interpolate(target, ...) may leave in target
interpolate(target, vals) ==
    {[target EXCEPT !.internal = iv, !.boundary = bv] :
        iv \in [CellIds(target.mesh) -> vals],
        bv \in BoundaryFills(target.mesh, vals)}

(***************************************************************************)
(* The persisted fields of the source time directory that main() maps in   *)
(* production mode, and of the target time directory.                      *)
(***************************************************************************)
DiskScalar(name, mesh, k) ==
    [name |-> name, class |-> "volScalarField", set |-> TRUE, mesh |-> mesh,
     internal |-> [c \in CellIds(mesh) |-> Fix(k * c)],
     boundary |-> [p \in PatchIds(mesh) |-> [f \in FaceIds(mesh, p) |-> Fix(k)]]]
DiskVector(name, mesh, k) ==
    [name |-> name, class |-> "volVectorField", set |-> TRUE, mesh |-> mesh,
     internal |-> [c \in CellIds(mesh) |-> <<Fix(3 * k * c), Fix(4 * k * c), 0>>],
     boundary |-> [p \in PatchIds(mesh) |->
                    [f \in FaceIds(mesh, p) |-> <<0, 0, 0>>]]]
DiskOther(name, mesh) ==
    [name |-> name, class |-> "surfaceScalarField", set |-> TRUE, mesh |-> mesh,
     internal |-> <<>>, boundary |-> <<>>]

\* the contents a source time directory may have
SourceDirs(mesh) ==
    {<<>>,
     <<DiskScalar("T", mesh, 1), DiskScalar("p", mesh, 2)>>,
     <<DiskVector("U", mesh, 1), DiskOther("phi", mesh),
       DiskScalar("T", mesh, 1)>>}

\* the field of that name and class already in the target time directory
TargetOnDisk(obj, mesh) ==
    IF obj.class = "volScalarField"
    THEN DiskScalar(obj.name, mesh, 3)
    ELSE DiskVector(obj.name, mesh, 3)

\* arithmetic of Type: scalar or vector
IsVec(class) == class = "volVectorField"
tZero(class) == IF IsVec(class) THEN <<0, 0, 0>> ELSE 0
tAdd(class, a, b) ==
    IF IsVec(class) THEN [k \in 1..3 |-> a[k] + b[k]] ELSE a + b
tSub(class, a, b) ==
    IF IsVec(class) THEN [k \in 1..3 |-> a[k] - b[k]] ELSE a - b
tScale(class, k, a) ==
    IF IsVec(class) THEN [j \in 1..3 |-> k * a[j]] ELSE k * a
\* mag(): the absolute value, or the Euclidean norm
tMag(class, a) == IF IsVec(class) THEN ISqrt(magSqr3(a)) ELSE Abs(a)
RECURSIVE tSum(_, _)
tSum(class, s) ==
    IF s = <<>> THEN tZero(class) ELSE tAdd(class, Head(s), tSum(class, Tail(s)))
\* gSum(mesh.V() * field.internalField()) for a field of Type
gSumT(class, mesh, internal) ==
    tSum(class, [c \in 1..Len(internal) |-> tScale(class, mesh.V[c], internal[c])])


(***************************************************************************)
(* State                                                                   *)
(***************************************************************************)
VARIABLES
    entry,          \* the function called: "main", "testCyclicRemap",
                    \* "testMappingError", or "unit" (the functions one by one)
    pc,             \* the position in the code
    diag,           \* the message of the fatal error, "" if none
    meshSource, meshTarget, method, testOnly,
    objects,        \* the fields in the source time directory
    targetHeaders,  \* the names with a valid header in the target directory
    type, nCycles, i,
    fieldSource, fieldTarget, gfieldSource, gfieldTarget,
    mappers,        \* the conservativeMeshToMesh objects, by variable name
    intSource,
    mcv,            \* the locals of MapConservativeVolFields
    info,           \* what was written to Info, in order
    written,        \* the write() calls, in order
    calls,          \* the calls made to the mapping operator
    frame,          \* calls at the entry of the running test routine
    unit            \* the unit-level calls made: their number, the last one
                    \* and the field its handle held before it

inputs == <<entry, meshSource, meshTarget, method, testOnly, objects, targetHeaders>>
fields == <<fieldSource, fieldTarget, gfieldSource, gfieldTarget>>
vars == <<entry, pc, diag, meshSource, meshTarget, method, testOnly, objects,
          targetHeaders, type, nCycles, i, fieldSource, fieldTarget,
          gfieldSource, gfieldTarget, mappers, intSource, mcv, info, written,
          calls, frame, unit>>

NoMappers ==
    [meshSourceToTarget |-> NoMapper, meshTargetToSource |-> NoMapper,
     meshToMeshInterp |-> NoMapper]
NoCall ==
    [mapper |-> "", mapperSrc |-> "", mapperTgt |-> "", form |-> "",
     target |-> "", targetMesh |-> "", source |-> "", sourceMesh |-> "",
     grad |-> "", gradValue |-> <<>>, method |-> ""]
NoCalls == [fwd |-> 0, bwd |-> 0, ctor |-> <<>>, last |-> NoCall]
NoMcvField ==
    [name |-> "", fieldSource |-> NoField, intSource |-> 0, readOpt |-> "",
     fieldTarget |-> NoField, intTarget |-> 0, branch |-> ""]
NoMcv == [class |-> "", fields |-> <<>>, iter |-> 0, cur |-> NoMcvField]
NoUnit == [steps |-> 0, op |-> "", which |-> "", populate |-> FALSE,
           prior |-> NoField]

Interpolations(c) == c.fwd + c.bwd

\* a mapper constructed into variable v
Constructed(c, v, m) ==
    [c EXCEPT !.ctor = Append(@, [var |-> v, srcMesh |-> m.srcMesh.name,
                                  tgtMesh |-> m.tgtMesh.name,
                                  at |-> Interpolations(c)])]
\* mapper m, held by variable v, called as interpolate(target, source, grad,
\* method): a call is forward when it reads the source-mesh field and backward
\* when it reads the target-mesh field.  form is "inplace" for the overload
\* that fills target and "result" for the one that returns the field.
Called(c, v, m, form, target, tf, source, sf, grad, gf, meth) ==
    [c EXCEPT !.fwd = IF source = "fieldSource" THEN @ + 1 ELSE @,
              !.bwd = IF source = "fieldTarget" THEN @ + 1 ELSE @,
              !.last = [mapper |-> v, mapperSrc |-> m.srcMesh.name,
                        mapperTgt |-> m.tgtMesh.name, form |-> form,
                        target |-> target, targetMesh |-> tf.mesh.name,
                        source |-> source, sourceMesh |-> sf.mesh.name,
                        grad |-> grad,
                        gradValue |-> IF gf.set THEN gf.internal ELSE <<>>,
                        method |-> meth]]
\* field.write()
Write(w, f, c) ==
    Append(w, [name |-> f.name, mesh |-> f.mesh.name, internal |-> f.internal,
               boundary |-> f.boundary, at |-> Interpolations(c)])

\* the payloads written to Info under a key, in order
RECURSIVE Said(_, _)
Said(log, key) ==
    IF log = <<>> THEN <<>>
    ELSE IF Head(log)[1] = key
         THEN <<Head(log)[2]>> \o Said(Tail(log), key)
         ELSE Said(Tail(log), key)

Locals0 ==
    /\ diag = ""
    /\ i = 0
    /\ fieldSource = NoField /\ fieldTarget = NoField
    /\ gfieldSource = NoField /\ gfieldTarget = NoField
    /\ mappers = NoMappers
    /\ intSource = 0
    /\ mcv = NoMcv
    /\ info = <<>>
    /\ written = <<>>
    /\ calls = NoCalls
    /\ frame = NoCalls
    /\ unit = NoUnit

\* main() after the meshes are created, with the options parsed
InitMain ==
    /\ entry = "main" /\ pc = "main_switch"
    /\ \E pair \in MeshPairs : meshSource = pair[1] /\ meshTarget = pair[2]
    /\ method \in AllMethods
    /\ testOnly \in BOOLEAN
    /\ objects \in (IF testOnly THEN {<<>>} ELSE SourceDirs(meshSource))
    /\ targetHeaders \in SUBSET {objects[k].name : k \in 1..Len(objects)}
    /\ type = "" /\ nCycles = 0
    /\ Locals0

\* a call of testCyclicRemap
InitCyclic ==
    /\ entry = "testCyclicRemap" /\ pc = "cyc_source"
    /\ \E pair \in MeshPairs : meshSource = pair[1] /\ meshTarget = pair[2]
    /\ method \in Methods
    /\ testOnly = TRUE /\ objects = <<>> /\ targetHeaders = {}
    /\ type \in AllKinds
    /\ nCycles \in 0..MaxCycles
    /\ Locals0

\* a call of testMappingError
InitMappingError ==
    /\ entry = "testMappingError" /\ pc = "tme_fields"
    /\ \E pair \in MeshPairs : meshSource = pair[1] /\ meshTarget = pair[2]
    /\ method \in Methods
    /\ testOnly = TRUE /\ objects = <<>> /\ targetHeaders = {}
    /\ type \in AllKinds
    /\ nCycles = 0
    /\ Locals0

\* the field functions called one after another on two pairs of handles
InitUnit ==
    /\ entry = "unit" /\ pc = "unit"
    /\ \E pair \in MeshPairs : meshSource = pair[1] /\ meshTarget = pair[2]
    /\ method = "CONSERVATIVE"
    /\ testOnly = TRUE /\ objects = <<>> /\ targetHeaders = {}
    /\ type \in AllKinds
    /\ nCycles = 0
    /\ Locals0

Init == InitMain \/ InitCyclic \/ InitMappingError \/ InitUnit

\* where a test routine returns to
Return(after) == IF entry = "main" THEN after ELSE "done"
\* the position after a call of initTestField or initBoundaryFields
After(status, next) ==
    CASE status = "ok" -> next
      [] status = "abort" -> "aborted"
      [] status = "sigfpe" -> "sigfpe"
Diag(status, fn) ==
    CASE status = "ok" -> ""
      [] status = "abort" -> fn \o ": Unknown enumerant for initialisation."
      [] status = "sigfpe" -> "Floating point exception"
\* what a floating-point exception does: masked, or trapped
FpeModes == {"nan", "trap"}


(***************************************************************************)
(* testCyclicRemap                                                         *)
(***************************************************************************)
\* lines 710-728: the source fields are built, the source integral is taken
\* and the source field and its gradient are written
CycInitSource ==
    /\ pc = "cyc_source"
    /\ \E fpe \in FpeModes :
        LET r == initTestField(meshSource, type, TRUE, fpe)
        IN  /\ fieldSource' = r.tField
            /\ gfieldSource' = r.tgField
            /\ pc' = After(r.status, "cyc_target")
            /\ diag' = Diag(r.status, "initTestField")
            /\ IF r.status = "ok"
               THEN /\ intSource' = gSumV(meshSource, r.tField.internal)
                    /\ written' = Write(Write(written, r.tField, calls),
                                        r.tgField, calls)
               ELSE UNCHANGED <<intSource, written>>
    /\ frame' = calls
    /\ UNCHANGED <<inputs, type, nCycles, i, fieldTarget, gfieldTarget,
                   mappers, mcv, info, calls, unit>>

\* lines 730-737
CycInitTarget ==
    /\ pc = "cyc_target"
    /\ \E fpe \in FpeModes :
        LET r == initTestField(meshTarget, type, TRUE, fpe)
        IN  /\ fieldTarget' = r.tField
            /\ gfieldTarget' = r.tgField
            /\ pc' = After(r.status, "cyc_ctor")
            /\ diag' = Diag(r.status, "initTestField")
    /\ UNCHANGED <<inputs, type, nCycles, i, fieldSource, gfieldSource,
                   mappers, intSource, mcv, info, written, calls, frame, unit>>

\* lines 739-759: the two interpolation schemes
CycConstruct ==
    /\ pc = "cyc_ctor"
    /\ LET s2t == conservativeMeshToMesh(meshSource, meshTarget)
           t2s == conservativeMeshToMesh(meshTarget, meshSource)
       IN  /\ mappers' = [mappers EXCEPT !.meshSourceToTarget = s2t,
                                         !.meshTargetToSource = t2s]
           /\ calls' = Constructed(
                          Constructed(calls, "meshSourceToTarget", s2t),
                          "meshTargetToSource", t2s)
    /\ info' = Append(info, <<"Remapping for cycles", nCycles>>)
    /\ pc' = "cyc_map0"
    /\ UNCHANGED <<inputs, diag, type, nCycles, i, fields, intSource, mcv,
                   written, frame, unit>>

\* meshSourceToTarget.interpolate(fieldTarget(), fieldSource(),
\* gfieldSource(), method) followed by position next
MapToTarget(next) ==
    /\ \E f \in interpolate(fieldTarget, InterpVals) : fieldTarget' = f
    /\ calls' = Called(calls, "meshSourceToTarget", mappers.meshSourceToTarget,
                       "inplace", "fieldTarget", fieldTarget,
                       "fieldSource", fieldSource,
                       "gfieldSource", gfieldSource, method)
    /\ pc' = next
    /\ UNCHANGED <<inputs, diag, type, nCycles, i, fieldSource, gfieldSource,
                   gfieldTarget, mappers, intSource, mcv, info, written,
                   frame, unit>>

\* lines 761-768: the initial map
CycInitialMap ==
    /\ pc = "cyc_map0"
    /\ MapToTarget("cyc_bc0")

\* CycReassertBC without the second call: only the target field is re-asserted
CycReassertBC_TargetOnly ==
    /\ pc \in {"cyc_bc0", "cyc_bc1", "cyc_bc2"}
    /\ LET t == initBoundaryFields(meshTarget, type, fieldTarget)
       IN  /\ fieldTarget' = t.tField
           /\ fieldSource' = fieldSource
           /\ diag' = Diag(t.status, "initBoundaryFields")
           /\ pc' = After(t.status, IF pc = "cyc_bc1" THEN "cyc_map" ELSE "cyc_loop")
    /\ i' = CASE pc = "cyc_bc0" -> 1
              [] pc = "cyc_bc1" -> i
              [] pc = "cyc_bc2" -> i + 1
    /\ UNCHANGED <<inputs, type, nCycles, gfieldSource, gfieldTarget, mappers,
                   intSource, mcv, info, written, calls, frame, unit>>

\* lines 770-772, 786-788 and 799-801: initBoundaryFields on the target field,
\* then on the source field.  After the initial map the loop starts (i = 1),
\* after the last pair of a pass i is incremented.
CycReassertBC ==
    /\ pc \in {"cyc_bc0", "cyc_bc1", "cyc_bc2"}
    /\ LET t == initBoundaryFields(meshTarget, type, fieldTarget)
           s == initBoundaryFields(meshSource, type, fieldSource)
           status == IF t.status = "ok" THEN s.status ELSE t.status
       IN  /\ fieldTarget' = t.tField
           /\ fieldSource' = IF t.status = "ok" THEN s.tField ELSE fieldSource
           /\ diag' = Diag(status, "initBoundaryFields")
           /\ pc' = After(status, IF pc = "cyc_bc1" THEN "cyc_map" ELSE "cyc_loop")
    /\ i' = CASE pc = "cyc_bc0" -> 1
              [] pc = "cyc_bc1" -> i
              [] pc = "cyc_bc2" -> i + 1
    /\ UNCHANGED <<inputs, type, nCycles, gfieldSource, gfieldTarget, mappers,
                   intSource, mcv, info, written, calls, frame, unit>>

\* line 775: i < nCycles
CycLoop ==
    /\ pc = "cyc_loop"
    /\ pc' = IF i < nCycles THEN "cyc_back" ELSE "cyc_write"
    /\ UNCHANGED <<inputs, diag, type, nCycles, i, fields, mappers, intSource,
                   mcv, info, written, calls, frame, unit>>

\* CycMapBack through the source-to-target scheme
CycMapBack_WrongMapper ==
    /\ pc = "cyc_back"
    /\ \E f \in interpolate(fieldSource, InterpVals) : fieldSource' = f
    /\ calls' = Called(calls, "meshSourceToTarget", mappers.meshSourceToTarget,
                       "inplace", "fieldSource", fieldSource,
                       "fieldTarget", fieldTarget,
                       "gfieldTarget", gfieldTarget, method)
    /\ pc' = "cyc_bc1"
    /\ UNCHANGED <<inputs, diag, type, nCycles, i, fieldTarget, gfieldSource,
                   gfieldTarget, mappers, intSource, mcv, info, written,
                   frame, unit>>

\* CycMapBack with the gradient of the source mesh
CycMapBack_SourceGradient ==
    /\ pc = "cyc_back"
    /\ \E f \in interpolate(fieldSource, InterpVals) : fieldSource' = f
    /\ calls' = Called(calls, "meshTargetToSource", mappers.meshTargetToSource,
                       "inplace", "fieldSource", fieldSource,
                       "fieldTarget", fieldTarget,
                       "gfieldSource", gfieldSource, method)
    /\ pc' = "cyc_bc1"
    /\ UNCHANGED <<inputs, diag, type, nCycles, i, fieldTarget, gfieldSource,
                   gfieldTarget, mappers, intSource, mcv, info, written,
                   frame, unit>>

\* lines 777-784: map back to source
CycMapBack ==
    /\ pc = "cyc_back"
    /\ \E f \in interpolate(fieldSource, InterpVals) : fieldSource' = f
    /\ calls' = Called(calls, "meshTargetToSource", mappers.meshTargetToSource,
                       "inplace", "fieldSource", fieldSource,
                       "fieldTarget", fieldTarget,
                       "gfieldTarget", gfieldTarget, method)
    /\ pc' = "cyc_bc1"
    /\ UNCHANGED <<inputs, diag, type, nCycles, i, fieldTarget, gfieldSource,
                   gfieldTarget, mappers, intSource, mcv, info, written,
                   frame, unit>>

\* lines 790-797: map to target
CycMapForward ==
    /\ pc = "cyc_map"
    /\ MapToTarget("cyc_bc2")

\* lines 804-805
CycWriteFinal ==
    /\ pc = "cyc_write"
    /\ written' = Write(written, fieldTarget, calls)
    /\ pc' = "cyc_error"
    /\ UNCHANGED <<inputs, diag, type, nCycles, i, fields, mappers, intSource,
                   mcv, info, calls, frame, unit>>

\* lines 807-808
CycComputeError ==
    /\ pc = "cyc_error"
    /\ info' = Append(info, <<"computeError",
                              computeError(fieldSource, fieldTarget, type)>>)
    /\ pc' = "cyc_report"
    /\ UNCHANGED <<inputs, diag, type, nCycles, i, fields, mappers, intSource,
                   mcv, written, calls, frame, unit>>

\* CycReport with the drift taken against the source integral after the cycles
CycReport_AfterIntegral ==
    /\ pc = "cyc_report"
    /\ LET intSourceAfter == gSumV(meshSource, fieldSource.internal)
           intTarget == gSumV(meshTarget, fieldTarget.internal)
       IN  info' = info \o
                << <<"Done", 0>>,
                   <<"Integral source (before)", intSource>>,
                   <<"Integral source (after)", intSourceAfter>>,
                   <<"Integral target", intTarget>>,
                   <<"mag(intError)", Abs(intSourceAfter - intTarget)>> >>
    /\ pc' = "cyc_return"
    /\ UNCHANGED <<inputs, diag, type, nCycles, i, fields, mappers, intSource,
                   mcv, written, calls, frame, unit>>

\* lines 810-819
CycReport ==
    /\ pc = "cyc_report"
    /\ LET intSourceAfter == gSumV(meshSource, fieldSource.internal)
           intTarget == gSumV(meshTarget, fieldTarget.internal)
       IN  info' = info \o
                << <<"Done", 0>>,
                   <<"Integral source (before)", intSource>>,
                   <<"Integral source (after)", intSourceAfter>>,
                   <<"Integral target", intTarget>>,
                   <<"mag(intError)", Abs(intSource - intTarget)>> >>
    /\ pc' = "cyc_return"
    /\ UNCHANGED <<inputs, diag, type, nCycles, i, fields, mappers, intSource,
                   mcv, written, calls, frame, unit>>

\* line 820: the locals go out of scope
CycReturn ==
    /\ pc = "cyc_return"
    /\ fieldSource' = NoField /\ fieldTarget' = NoField
    /\ gfieldSource' = NoField /\ gfieldTarget' = NoField
    /\ mappers' = NoMappers
    /\ pc' = Return("main_end")
    /\ UNCHANGED <<inputs, diag, type, nCycles, i, intSource, mcv, info,
                   written, calls, frame, unit>>

(***************************************************************************)
(* testMappingError                                                        *)
(***************************************************************************)
\* lines 835-855: the populated source fields, the zero target fields
TmeFields ==
    /\ pc = "tme_fields"
    /\ \E fpe \in FpeModes :
        LET s == initTestField(meshSource, type, TRUE, fpe)
            t == initTestField(meshTarget, type, FALSE, fpe)
        IN  /\ fieldSource' = s.tField
            /\ gfieldSource' = s.tgField
            /\ fieldTarget' = IF s.status = "ok" THEN t.tField ELSE fieldTarget
            /\ gfieldTarget' = IF s.status = "ok" THEN t.tgField ELSE gfieldTarget
            /\ pc' = After(s.status, "tme_ctor")
            /\ diag' = Diag(s.status, "initTestField")
    /\ frame' = calls
    /\ UNCHANGED <<inputs, type, nCycles, i, mappers, intSource, mcv, info,
                   written, calls, unit>>

\* lines 857-865
TmeConstruct ==
    /\ pc = "tme_ctor"
    /\ LET m == conservativeMeshToMesh(meshSource, meshTarget)
       IN  /\ mappers' = [mappers EXCEPT !.meshToMeshInterp = m]
           /\ calls' = Constructed(calls, "meshToMeshInterp", m)
    /\ pc' = "tme_map"
    /\ UNCHANGED <<inputs, diag, type, nCycles, i, fields, intSource, mcv,
                   info, written, frame, unit>>

\* lines 867-874
TmeInterpolate ==
    /\ pc = "tme_map"
    /\ \E f \in interpolate(fieldTarget, InterpVals) : fieldTarget' = f
    /\ calls' = Called(calls, "meshToMeshInterp", mappers.meshToMeshInterp,
                       "inplace", "fieldTarget", fieldTarget,
                       "fieldSource", fieldSource,
                       "gfieldSource", gfieldSource, method)
    /\ pc' = "tme_error"
    /\ UNCHANGED <<inputs, diag, type, nCycles, i, fieldSource, gfieldSource,
                   gfieldTarget, mappers, intSource, mcv, info, written,
                   frame, unit>>

\* lines 876-877
TmeComputeError ==
    /\ pc = "tme_error"
    /\ info' = Append(info, <<"computeError",
                              computeError(fieldSource, fieldTarget, type)>>)
    /\ pc' = "tme_return"
    /\ UNCHANGED <<inputs, diag, type, nCycles, i, fields, mappers, intSource,
                   mcv, written, calls, frame, unit>>

\* line 878: the locals go out of scope
TmeReturn ==
    /\ pc = "tme_return"
    /\ fieldSource' = NoField /\ fieldTarget' = NoField
    /\ gfieldSource' = NoField /\ gfieldTarget' = NoField
    /\ mappers' = NoMappers
    /\ pc' = Return("main_cyclic")
    /\ UNCHANGED <<inputs, diag, type, nCycles, i, intSource, mcv, info,
                   written, calls, frame, unit>>


(***************************************************************************)
(* mapConservativeMesh and MapConservativeVolFields<Type>                  *)
(***************************************************************************)
\* lines 891-907: the interpolation scheme and the list of objects
McmConstruct ==
    /\ pc = "mcm_ctor"
    /\ LET m == conservativeMeshToMesh(meshSource, meshTarget)
       IN  /\ mappers' = [mappers EXCEPT !.meshToMeshInterp = m]
           /\ calls' = Constructed(calls, "meshToMeshInterp", m)
    /\ mcv' = [NoMcv EXCEPT !.class = "volScalarField"]
    /\ pc' = "mcv_lookup"
    /\ UNCHANGED <<inputs, diag, type, nCycles, i, fields, intSource, info,
                   written, frame, unit>>

\* lines 91-99: objects.lookupClass(fieldClassName)
McvLookup ==
    /\ pc = "mcv_lookup"
    /\ mcv' = [mcv EXCEPT
                !.fields = SelectSeq(objects, LAMBDA o : o.class = mcv.class),
                !.iter = 1,
                !.cur = NoMcvField]
    /\ pc' = "mcv_loop"
    /\ UNCHANGED <<inputs, diag, type, nCycles, i, fields, mappers, intSource,
                   info, written, calls, frame, unit>>

\* lines 101-106 and 911-923: the next field, or the next Type (scalar, then
\* vector), or the end of mapConservativeMesh
McvLoop ==
    /\ pc = "mcv_loop"
    /\ IF mcv.iter <= Len(mcv.fields)
       THEN /\ pc' = "mcv_read"
            /\ mcv' = [mcv EXCEPT !.cur = NoMcvField]
            /\ UNCHANGED mappers
       ELSE IF mcv.class = "volScalarField"
       THEN /\ pc' = "mcv_lookup"
            /\ mcv' = [NoMcv EXCEPT !.class = "volVectorField"]
            /\ UNCHANGED mappers
       ELSE /\ pc' = "main_end"
            /\ mcv' = NoMcv
            /\ mappers' = NoMappers
    /\ UNCHANGED <<inputs, diag, type, nCycles, i, fields, intSource, info,
                   written, calls, frame, unit>>

\* lines 108-131: the source field is read and integrated
McvRead ==
    /\ pc = "mcv_read"
    /\ LET obj == mcv.fields[mcv.iter]
           m == mappers.meshToMeshInterp
           intS == gSumT(mcv.class, m.srcMesh, obj.internal)
       IN  /\ mcv' = [mcv EXCEPT !.cur =
                        [NoMcvField EXCEPT !.name = obj.name,
                                           !.fieldSource = obj,
                                           !.intSource = intS,
                                           !.readOpt = "MUST_READ",
                                           !.intTarget = tZero(mcv.class)]]
           /\ info' = info \o << <<"Interpolating", obj.name>>,
                                 <<"Integral source", intS>> >>
    /\ pc' = "mcv_map"
    /\ UNCHANGED <<inputs, diag, type, nCycles, i, fields, mappers, intSource,
                   written, calls, frame, unit>>

\* mcvInPlace with the target integral taken before the interpolation
mcvInPlace_IntegralBefore(cur, class, m, headers) ==
    {[cur EXCEPT !.fieldTarget = f,
                 !.intTarget = gSumT(class, m.tgtMesh,
                                     TargetOnDisk(cur.fieldSource, m.tgtMesh).internal),
                 !.branch = "read"] :
        f \in interpolate(TargetOnDisk(cur.fieldSource, m.tgtMesh),
                          IF IsVec(class) THEN InterpVecs ELSE InterpVals)}

\* lines 133-157: the target field is read and interpolated into
mcvInPlace(cur, class, m, headers) ==
    {[cur EXCEPT !.fieldTarget = f,
                 !.intTarget = gSumT(class, m.tgtMesh, f.internal),
                 !.branch = "read"] :
        f \in interpolate(TargetOnDisk(cur.fieldSource, m.tgtMesh),
                          IF IsVec(class) THEN InterpVecs ELSE InterpVals)}

\* lines 158-176: the target field is made from the interpolated field
mcvFresh(cur, class, m, headers) ==
    {[cur EXCEPT !.readOpt = "NO_READ",
                 !.fieldTarget = f,
                 !.intTarget = gSumT(class, m.tgtMesh, f.internal),
                 !.branch = "fresh"] :
        f \in interpolate([cur.fieldSource EXCEPT
                              !.mesh = m.tgtMesh,
                              !.internal = [c \in CellIds(m.tgtMesh) |-> tZero(class)],
                              !.boundary = [p \in PatchIds(m.tgtMesh) |->
                                  [g \in FaceIds(m.tgtMesh, p) |-> tZero(class)]]],
                          IF IsVec(class) THEN InterpVecs ELSE InterpVals)}

\* lines 133-176: fieldTargetIOobject.headerOk() chooses the branch
mcvBranch(cur, class, m, headers) ==
    IF cur.name \in headers
    THEN mcvInPlace(cur, class, m, headers)
    ELSE mcvFresh(cur, class, m, headers)

McvInterpolate ==
    /\ pc = "mcv_map"
    /\ \E c \in mcvBranch(mcv.cur, mcv.class, mappers.meshToMeshInterp,
                          targetHeaders) :
        /\ mcv' = [mcv EXCEPT !.cur = c]
        /\ calls' = Called(calls, "meshToMeshInterp", mappers.meshToMeshInterp,
                           IF c.branch = "read" THEN "inplace" ELSE "result",
                           "fieldTarget", c.fieldTarget,
                           "fieldSource", c.fieldSource, "", NoField, method)
        /\ written' = Write(written, c.fieldTarget, calls')
    /\ pc' = "mcv_report"
    /\ UNCHANGED <<inputs, diag, type, nCycles, i, fields, mappers, intSource,
                   info, frame, unit>>

\* lines 178-179
mcvDrift(cur, class) == tMag(class, tSub(class, cur.intSource, cur.intTarget))

McvReport ==
    /\ pc = "mcv_report"
    /\ info' = info \o << <<"Integral target", mcv.cur.intTarget>>,
                          <<"mag(intError)", mcvDrift(mcv.cur, mcv.class)>> >>
    /\ mcv' = [mcv EXCEPT !.iter = @ + 1]
    /\ pc' = "mcv_loop"
    /\ UNCHANGED <<inputs, diag, type, nCycles, i, fields, mappers, intSource,
                   written, calls, frame, unit>>

(***************************************************************************)
(* main                                                                    *)
(***************************************************************************)
\* methodKnown with the default case falling through
methodKnown_Any(m) == TRUE

\* lines 992-1021: the switch on the method
methodKnown(m) == m \in Methods

MainSwitch ==
    /\ pc = "main_switch"
    /\ IF methodKnown(method)
       THEN /\ info' = Append(info, <<"Using method", method>>)
            /\ pc' = "main_branch"
            /\ diag' = diag
       ELSE /\ info' = info
            /\ pc' = "exited"
            /\ diag' = "mapConservativeFields: unknown interpolation scheme"
    /\ UNCHANGED <<inputs, type, nCycles, i, fields, mappers, intSource, mcv,
                   written, calls, frame, unit>>

\* lines 1023-1034 and 1051-1061
MainBranch ==
    /\ pc = "main_branch"
    /\ IF testOnly
       THEN /\ type' = "LINEAR"
            /\ pc' = "tme_fields"
       ELSE /\ type' = type
            /\ pc' = "mcm_ctor"
    /\ UNCHANGED <<inputs, diag, nCycles, i, fields, mappers, intSource, mcv,
                   info, written, calls, frame, unit>>

\* MainCyclic without the test of the source mesh's dimension
MainCyclic_AnyDim ==
    /\ pc = "main_cyclic"
    /\ nCycles' = MainCycles
    /\ type' = "COSINE_HILL_2D"
    /\ pc' = "cyc_source"
    /\ UNCHANGED <<inputs, diag, i, fields, mappers, intSource, mcv, info,
                   written, calls, frame, unit>>

\* lines 1036-1049
MainCyclic ==
    /\ pc = "main_cyclic"
    /\ IF meshSource.nGeometricD = 2
       THEN /\ nCycles' = MainCycles
            /\ type' = "COSINE_HILL_2D"
            /\ pc' = "cyc_source"
       ELSE /\ UNCHANGED <<nCycles, type>>
            /\ pc' = "main_end"
    /\ UNCHANGED <<inputs, diag, i, fields, mappers, intSource, mcv, info,
                   written, calls, frame, unit>>

\* lines 1064-1066
MainEnd ==
    /\ pc = "main_end"
    /\ info' = Append(info, <<"End", 0>>)
    /\ pc' = "done"
    /\ UNCHANGED <<inputs, diag, type, nCycles, i, fields, mappers, intSource,
                   mcv, written, calls, frame, unit>>

(***************************************************************************)
(* The field functions called one by one: initTestField on the source      *)
(* handles or the target handles, initBoundaryFields on a handle that      *)
(* holds a field, computeError on the two fields.                          *)
(***************************************************************************)
UnitInitTestField ==
    /\ pc = "unit" /\ unit.steps < MaxUnitSteps
    /\ \E which \in {"source", "target"}, populate \in BOOLEAN, fpe \in FpeModes :
        LET mesh == IF which = "source" THEN meshSource ELSE meshTarget
            r == initTestField(mesh, type, populate, fpe)
        IN  /\ IF which = "source"
               THEN /\ fieldSource' = r.tField /\ gfieldSource' = r.tgField
                    /\ UNCHANGED <<fieldTarget, gfieldTarget>>
               ELSE /\ fieldTarget' = r.tField /\ gfieldTarget' = r.tgField
                    /\ UNCHANGED <<fieldSource, gfieldSource>>
            /\ pc' = After(r.status, "unit")
            /\ diag' = Diag(r.status, "initTestField")
            /\ unit' = [steps |-> unit.steps + 1, op |-> "initTestField",
                        which |-> which, populate |-> populate,
                        prior |-> IF which = "source" THEN fieldSource
                                  ELSE fieldTarget]
    /\ UNCHANGED <<inputs, type, nCycles, i, mappers, intSource, mcv, info,
                   written, calls, frame>>

UnitInitBoundaryFields ==
    /\ pc = "unit" /\ unit.steps < MaxUnitSteps
    /\ \E which \in {"source", "target"} :
        LET mesh == IF which = "source" THEN meshSource ELSE meshTarget
            held == IF which = "source" THEN fieldSource ELSE fieldTarget
            r == initBoundaryFields(mesh, type, held)
        IN  /\ held.set
            /\ IF which = "source"
               THEN fieldSource' = r.tField /\ fieldTarget' = fieldTarget
               ELSE fieldTarget' = r.tField /\ fieldSource' = fieldSource
            /\ pc' = After(r.status, "unit")
            /\ diag' = Diag(r.status, "initBoundaryFields")
            /\ unit' = [steps |-> unit.steps + 1, op |-> "initBoundaryFields",
                        which |-> which, populate |-> FALSE, prior |-> held]
    /\ UNCHANGED <<inputs, type, nCycles, i, gfieldSource, gfieldTarget,
                   mappers, intSource, mcv, info, written, calls, frame>>

UnitComputeError ==
    /\ pc = "unit" /\ unit.steps < MaxUnitSteps
    /\ fieldSource.set /\ fieldTarget.set
    /\ info' = Append(info, <<"computeError",
                              computeError(fieldSource, fieldTarget, type)>>)
    /\ unit' = [steps |-> unit.steps + 1, op |-> "computeError",
                which |-> "", populate |-> FALSE, prior |-> NoField]
    /\ UNCHANGED <<inputs, pc, diag, type, nCycles, i, fields, mappers,
                   intSource, mcv, written, calls, frame>>

(***************************************************************************)
(* Specification                                                           *)
(***************************************************************************)
Next ==
    \/ CycInitSource \/ CycInitTarget \/ CycConstruct \/ CycInitialMap
    \/ CycReassertBC \/ CycLoop \/ CycMapBack \/ CycMapForward
    \/ CycWriteFinal \/ CycComputeError \/ CycReport \/ CycReturn
    \/ TmeFields \/ TmeConstruct \/ TmeInterpolate \/ TmeComputeError
    \/ TmeReturn
    \/ McmConstruct \/ McvLookup \/ McvLoop \/ McvRead \/ McvInterpolate
    \/ McvReport
    \/ MainSwitch \/ MainBranch \/ MainCyclic \/ MainEnd
    \/ UnitInitTestField \/ UnitInitBoundaryFields \/ UnitComputeError

Spec == Init /\ [][Next]_vars

\* every step of the program is eventually taken: it runs single-threaded
\* and every call it makes returns
FairSpec == Spec /\ WF_vars(Next)


(***************************************************************************)
(* Properties                                                              *)
(***************************************************************************)
\* the calls made by the running test routine
Fwd == calls.fwd - frame.fwd
Bwd == calls.bwd - frame.bwd
NewCtors == SubSeq(calls.ctor, Len(frame.ctor) + 1, Len(calls.ctor))
\* the table of the analytic field model: the exact value of a kind at x
AnalyticValue(kind, x) ==
    CASE kind = "CONSTANT" -> Fix(2)
      [] kind = "LINEAR" -> 2 * x[1] + 3 * x[2] + x[3]
      [] kind = "SINUSOID_2D" -> Fix(1 + Sin2Pi(x[1]) * Sin2Pi(x[2]))
      [] kind = "SINUSOID_3D" ->
            Fix(1 + Sin2Pi(x[1]) * Sin2Pi(x[2]) * Sin2Pi(x[3]))
      [] kind = "COSINE_HILL_2D" ->
            Fix(2 + Cos2Pi(ISqrt(2 * magSqr3(x)) \div 2))
AnalyticBoundary(mesh, kind) ==
    [p \in PatchIds(mesh) |->
        [f \in FaceIds(mesh, p) |-> AnalyticValue(kind, mesh.Cf[p][f])]]
AnalyticInternal(mesh, kind) ==
    [c \in CellIds(mesh) |-> AnalyticValue(kind, mesh.C[c])]

\* C1: when testCyclicRemap(N) has run, it has made exactly N forward
\* interpolations and exactly max(N-1, 0) backward ones, and the last
\* interpolation was a forward one.
C1_CycleCounts ==
    pc = "cyc_return" =>
        /\ Fwd = nCycles
        /\ Bwd = Max2(nCycles - 1, 0)
        /\ (Fwd + Bwd > 0 => calls.last.source = "fieldSource")

\* C1, for N >= 1: the counts above, and (the action property below) forward
\* and backward calls alternate, starting with a forward one.
C1_CycleCountsFromOne ==
    (pc = "cyc_return" /\ nCycles >= 1) =>
        /\ Fwd = nCycles
        /\ Bwd = nCycles - 1
        /\ calls.last.source = "fieldSource"
C1_Alternation ==
    [][(Interpolations(calls') = Interpolations(calls) + 1
            /\ pc \in {"cyc_map0", "cyc_back", "cyc_map"})
        => /\ calls'.last.source # calls.last.source \/ Fwd + Bwd = 0
           /\ (Fwd + Bwd = 0 => calls'.last.source = "fieldSource")]_vars

\* C2: in testCyclicRemap, wherever an interpolation has been made and the
\* next interpolation, the final write or the error analysis is next, the
\* boundary values of the source field and of the target field are those of
\* the analytic model of the kind.
C2_BoundaryReasserted ==
    (pc \in {"cyc_loop", "cyc_back", "cyc_map", "cyc_write", "cyc_error"}
        /\ Fwd + Bwd > 0) =>
        /\ fieldSource.boundary = AnalyticBoundary(meshSource, type)
        /\ fieldTarget.boundary = AnalyticBoundary(meshTarget, type)
C2_Witness ==
    /\ pc = "cyc_map" /\ Fwd = 2 /\ Bwd = 2
    /\ fieldSource.internal # AnalyticInternal(meshSource, type)
    /\ fieldSource.boundary = AnalyticBoundary(meshSource, type)
    /\ fieldTarget.boundary = AnalyticBoundary(meshTarget, type)


\* C3: an enumerant outside testType makes each function that dispatches on
\* the kind (initTestField with either value of populate, initBoundaryFields,
\* computeError) abort, and no error metrics are reported for it.
C3_UnknownKindAborts ==
    (entry = "unit" /\ type \notin Kinds
        /\ unit.op \in {"initTestField", "initBoundaryFields", "computeError"}) =>
        /\ pc = "aborted"
        /\ Said(info, "computeError") = <<>>

\* C4: with a method that is none of CONSERVATIVE, INVERSE_DISTANCE and
\* CONSERVATIVE_FIRST_ORDER, main() goes from its switch to the fatal exit
\* with a diagnostic: no mapping operator is ever constructed, no
\* interpolation is called, no field is built or written, with and without
\* testOnly.
C4_UnknownMethodExits ==
    (entry = "main" /\ method \notin Methods) =>
        /\ pc \in {"main_switch", "exited"}
        /\ (pc = "exited" => diag # "")
        /\ calls = NoCalls
        /\ mappers = NoMappers
        /\ written = <<>>
        /\ fieldSource = NoField /\ fieldTarget = NoField
C4_Witness ==
    /\ entry = "main" /\ pc = "exited" /\ method \notin Methods
    /\ ~testOnly /\ objects # <<>> /\ diag # ""

\* C5: for each field MapConservativeVolFields processes, the branch taken is
\* the in-place one on a field read from the target directory exactly when
\* the target header is valid, and otherwise the one that makes a NO_READ
\* field from the mapper's result; the source integral is reported before the
\* interpolation, the target integral is that of the field after the
\* interpolation, the field is written once, and the drift reported is
\* |source integral - target integral|.
IsNorm(class, d, n) ==
    IF IsVec(class) THEN n >= 0 /\ n * n = magSqr3(d) ELSE n = Abs(d)
LastOf(seq) == seq[Len(seq)]
VolNames ==
    {objects[k].name : k \in {j \in 1..Len(objects) :
        objects[j].class \in {"volScalarField", "volVectorField"}}}
\* C5: every volume field of the source directory is mapped by the branch its
\* target header selects, integrated before and after, written once, and its
\* drift is the magnitude of the difference of the two integrals.
C5_MapFields ==
    (entry = "main" /\ ~testOnly) =>
        /\ pc = "mcv_map" =>
            /\ Len(Said(info, "Integral source")) = Len(written) + 1
            /\ LastOf(Said(info, "Integral source")) =
                 gSumT(mcv.class, meshSource, mcv.cur.fieldSource.internal)
            /\ Interpolations(calls) = Len(written)
            /\ mcv.cur.fieldTarget = NoField
        /\ pc = "mcv_report" =>
            /\ \/ /\ mcv.cur.name \in targetHeaders
                  /\ mcv.cur.branch = "read"
                  /\ mcv.cur.readOpt = "MUST_READ"
                  /\ calls.last.form = "inplace"
               \/ /\ mcv.cur.name \notin targetHeaders
                  /\ mcv.cur.branch = "fresh"
                  /\ mcv.cur.readOpt = "NO_READ"
                  /\ calls.last.form = "result"
            /\ mcv.cur.intSource =
                 gSumT(mcv.class, meshSource, mcv.cur.fieldSource.internal)
            /\ mcv.cur.intTarget =
                 gSumT(mcv.class, meshTarget, mcv.cur.fieldTarget.internal)
            /\ calls.fwd = Len(written) /\ calls.bwd = 0
            /\ LastOf(written).name = mcv.cur.name
            /\ LastOf(written).mesh = meshTarget.name
            /\ LastOf(written).internal = mcv.cur.fieldTarget.internal
            /\ LastOf(written).at = calls.fwd
            /\ \A a, b \in 1..Len(written) :
                    written[a].name = written[b].name => a = b
        /\ (pc = "mcv_loop" /\ mcv.cur.name # "") =>
            /\ Len(Said(info, "mag(intError)")) = Len(written)
            /\ LastOf(Said(info, "Integral target")) = mcv.cur.intTarget
            /\ IsNorm(mcv.class,
                      tSub(mcv.class, mcv.cur.intSource, mcv.cur.intTarget),
                      LastOf(Said(info, "mag(intError)")))
        /\ pc \in {"main_end", "done"} =>
            /\ {written[k].name : k \in 1..Len(written)} = VolNames
            /\ Len(written) = Cardinality(VolNames)
C5_Witness ==
    /\ entry = "main" /\ ~testOnly /\ pc = "mcv_loop"
    /\ Len(written) = 2
    /\ written[1].name \in targetHeaders
    /\ mcv.cur.branch = "fresh"
    /\ mcv.class = "volVectorField"
    /\ LastOf(Said(info, "mag(intError)")) > 0

\* C6: testCyclicRemap constructs exactly two mapping operators, source to
\* target and then target to source, both before its first interpolation and
\* none afterwards; each forward interpolation goes through the first and
\* each backward one through the second.
CycAfterCtor ==
    {"cyc_map0", "cyc_bc0", "cyc_bc1", "cyc_bc2", "cyc_loop", "cyc_back",
     "cyc_map", "cyc_write", "cyc_error", "cyc_report", "cyc_return"}
C6_TwoMappers ==
    /\ pc \in {"cyc_target", "cyc_ctor"} => NewCtors = <<>> /\ Fwd + Bwd = 0
    /\ pc \in CycAfterCtor =>
        /\ NewCtors =
            << [var |-> "meshSourceToTarget", srcMesh |-> meshSource.name,
                tgtMesh |-> meshTarget.name, at |-> Interpolations(frame)],
               [var |-> "meshTargetToSource", srcMesh |-> meshTarget.name,
                tgtMesh |-> meshSource.name, at |-> Interpolations(frame)] >>
        /\ (Fwd + Bwd > 0 /\ calls.last.source = "fieldSource") =>
            /\ calls.last.mapper = "meshSourceToTarget"
            /\ calls.last.mapperSrc = meshSource.name
            /\ calls.last.mapperTgt = meshTarget.name
        /\ (Fwd + Bwd > 0 /\ calls.last.source = "fieldTarget") =>
            /\ calls.last.mapper = "meshTargetToSource"
            /\ calls.last.mapperSrc = meshTarget.name
            /\ calls.last.mapperTgt = meshSource.name
C6_Witness ==
    /\ pc = "cyc_return" /\ Fwd = 3 /\ Bwd = 2 /\ Len(NewCtors) = 2
    /\ calls.last.mapper = "meshSourceToTarget"


\* C7: the drift testCyclicRemap reports last is |I0 - IT|, I0 the integral
\* of the source field as built (recorded before any interpolation), IT the
\* integral of the target field after the last interpolation; the target
\* field is written after the last interpolation and before the error
\* analysis.
I0 == SumSeq([c \in CellIds(meshSource) |->
                meshSource.V[c] * AnalyticValue(type, meshSource.C[c])])
CycAfterSource == CycAfterCtor \cup {"cyc_target", "cyc_ctor"}
C7_Drift ==
    /\ pc \in CycAfterSource => intSource = I0
    /\ pc = "cyc_write" =>
        Len(Said(info, "computeError")) = (IF entry = "main" THEN 1 ELSE 0)
    /\ pc \in {"cyc_error", "cyc_report", "cyc_return"} =>
        /\ LastOf(written).name = "alpha"
        /\ LastOf(written).mesh = meshTarget.name
        /\ LastOf(written).internal = fieldTarget.internal
        /\ LastOf(written).boundary = fieldTarget.boundary
        /\ LastOf(written).at = Interpolations(calls)
    /\ pc = "cyc_error" =>
        Len(Said(info, "computeError")) = (IF entry = "main" THEN 1 ELSE 0)
    /\ pc = "cyc_return" =>
        /\ LastOf(Said(info, "Integral source (before)")) = I0
        /\ LastOf(Said(info, "mag(intError)")) =
             Abs(I0 - gSumV(meshTarget, fieldTarget.internal))
\* the source field and its gradient, as built, are written before the first
\* interpolation
C7_SourcePersisted ==
    pc \in CycAfterSource =>
        /\ Len(written) >= 2
        /\ written[1].name = "alpha" /\ written[1].mesh = meshSource.name
        /\ written[1].internal = AnalyticInternal(meshSource, type)
        /\ written[1].boundary = AnalyticBoundary(meshSource, type)
        /\ written[1].at = Interpolations(frame)
        /\ written[2].name = "grad(alpha)" /\ written[2].mesh = meshSource.name
        /\ written[2].at = Interpolations(frame)
\* the target field as built is written before the first interpolation
C7_TargetPersisted ==
    pc = "cyc_map0" =>
        \E k \in 1..Len(written) :
            /\ written[k].name = "alpha" /\ written[k].mesh = meshTarget.name
            /\ written[k].internal = AnalyticInternal(meshTarget, type)
\* nothing but the source field and its gradient is written before the final
\* write
C7_TargetNotPersisted ==
    pc \in (CycAfterSource \ {"cyc_error", "cyc_report", "cyc_return"}) =>
        Len(written) = 2

\* C7 as stated: the drift reported by testCyclicRemap is |I0 - IT|, with I0
\* the source integral taken before any interpolation and IT the target
\* integral after the last one; the initial fields, of the source and of the
\* target, are written before the first interpolation, and the final target
\* field is written after the last interpolation and before computeError.
C7_InitialFieldsPersisted ==
    C7_Drift /\ C7_SourcePersisted /\ C7_TargetPersisted
\* C7 as amended: the drift reported by testCyclicRemap is |I0 - IT|, with
\* I0 the source integral taken before any interpolation and IT the target
\* integral after the last one; of the initial fields, the source field and
\* its gradient are written before the first interpolation and the target
\* field is not; the final target field is written after the last
\* interpolation and before computeError.
C7_DriftAndWrites ==
    C7_Drift /\ C7_SourcePersisted /\ C7_TargetNotPersisted
C7_Witness ==
    /\ pc = "cyc_return" /\ Bwd = 2
    /\ Len(written) = 3
    /\ gSumV(meshSource, fieldSource.internal) # I0
    /\ LastOf(Said(info, "mag(intError)")) > 0

\* C8: with a valid kind and a valid method, testCyclicRemap and
\* testMappingError never end in a fatal error, whatever the interpolation
\* writes.
C8_RunsToCompletion ==
    (entry \in {"testCyclicRemap", "testMappingError"}
        /\ type \in Kinds /\ method \in Methods) =>
        pc \notin {"aborted", "sigfpe", "exited"}

\* C9: when computeError has just analysed a field that is as
\* initTestField(mesh, kind, populate = true) builds it on that mesh, for a
\* valid kind, the squared error sum and the maximum error reported for that
\* field are 0, and for the target field the error of every cell is 0.
BuiltField(mesh) == initTestField(mesh, type, TRUE, "nan").tField
JustAnalysed ==
    \/ entry = "unit" /\ unit.op = "computeError"
    \/ pc \in {"tme_return", "cyc_report", "cyc_return"}
LastReport == LastOf(Said(info, "computeError"))
C9_SelfConsistent ==
    (JustAnalysed /\ type \in Kinds) =>
        /\ fieldSource = BuiltField(meshSource) =>
            /\ LastReport.source.sumSq = 0
            /\ LastReport.source.linf = 0
            /\ LastReport.source.n = nCells(meshSource)
        /\ fieldTarget = BuiltField(meshTarget) =>
            /\ LastReport.target.sumSq = 0
            /\ LastReport.target.linf = 0
            /\ LastReport.target.n = nCells(meshTarget)
            /\ \A c \in CellIds(meshTarget) : LastReport.iError[c] = 0
C9_Witness ==
    /\ entry = "unit" /\ unit.op = "computeError" /\ type = "LINEAR"
    /\ fieldSource = BuiltField(meshSource)
    /\ fieldTarget = BuiltField(meshTarget)
    /\ \E c \in CellIds(meshSource) : fieldSource.internal[c] # 0
    /\ LastReport.source.linf = 0 /\ LastReport.target.linf = 0

\* C10: initTestField with populate = false leaves, for every kind, a scalar
\* field and a gradient field on the mesh that are zero in every cell and on
\* every boundary face, with as many cells as the mesh and as many faces per
\* patch as the patch, whatever the handles held before.
ZeroBuilt(f, g, mesh) ==
    /\ f.set /\ g.set
    /\ f.mesh = mesh /\ g.mesh = mesh
    /\ Len(f.internal) = nCells(mesh) /\ Len(g.internal) = nCells(mesh)
    /\ \A c \in CellIds(mesh) : f.internal[c] = 0 /\ g.internal[c] = ZeroVec
    /\ Len(f.boundary) = Len(mesh.Cf) /\ Len(g.boundary) = Len(mesh.Cf)
    /\ \A p \in PatchIds(mesh) :
        /\ Len(f.boundary[p]) = Len(mesh.Cf[p])
        /\ Len(g.boundary[p]) = Len(mesh.Cf[p])
        /\ \A k \in FaceIds(mesh, p) :
            f.boundary[p][k] = 0 /\ g.boundary[p][k] = ZeroVec
\* C10: initTestField with populate = false leaves zero fields of the mesh's
\* sizes in both handles, for any kind and any earlier content.
C10_ZeroFields ==
    /\ (entry = "unit" /\ unit.op = "initTestField" /\ ~unit.populate) =>
        /\ pc = "unit"
        /\ IF unit.which = "source"
           THEN ZeroBuilt(fieldSource, gfieldSource, meshSource)
           ELSE ZeroBuilt(fieldTarget, gfieldTarget, meshTarget)
    /\ pc = "tme_ctor" => ZeroBuilt(fieldTarget, gfieldTarget, meshTarget)
C10_Witness ==
    /\ entry = "unit" /\ unit.op = "initTestField" /\ ~unit.populate
    /\ unit.which = "source"
    /\ unit.prior.set
    /\ \E c \in CellIds(meshSource) : unit.prior.internal[c] # 0
    /\ ZeroBuilt(fieldSource, gfieldSource, meshSource)


\* C11: a populated COSINE_HILL_2D build on a mesh with a cell centred on the
\* hill centre gives that cell a defined gradient: the build never divides by
\* r = 0, so no run ends in a floating-point exception and no gradient field
\* holds a cell that is not a number.
C11_HillCentreDefined ==
    /\ pc # "sigfpe"
    /\ \A g \in {gfieldSource, gfieldTarget} :
        g.set => \A c \in 1..Len(g.internal) : g.internal[c].u # "nan"

\* the positions inside testMappingError, testCyclicRemap and
\* mapConservativeMesh
TmePcs == {"tme_fields", "tme_ctor", "tme_map", "tme_error", "tme_return"}
CycPcs == CycAfterSource \cup {"cyc_source"}
McmPcs == {"mcm_ctor", "mcv_lookup", "mcv_loop", "mcv_read", "mcv_map",
           "mcv_report"}
\* the variables the mappers constructed so far were held by
CtorVars == [k \in 1..Len(calls.ctor) |-> calls.ctor[k].var]
\* the number of error analyses reported so far
Analyses == Len(Said(info, "computeError"))

\* C12: in main, with testOnly set testMappingError runs first with kind
\* LINEAR, testCyclicRemap runs after it with 250 cycles and kind
\* COSINE_HILL_2D exactly when the source mesh is two-dimensional, and
\* mapConservativeMesh never runs; with testOnly not set only
\* mapConservativeMesh runs and no test field is ever built.
C12_TestOnlySwitch ==
    entry = "main" =>
        /\ testOnly =>
            /\ pc \notin McmPcs /\ mcv = NoMcv
            /\ pc \in TmePcs =>
                /\ type = "LINEAR"
                /\ Analyses = (IF pc = "tme_return" THEN 1 ELSE 0)
                /\ "meshSourceToTarget" \notin {CtorVars[k] : k \in DOMAIN CtorVars}
            /\ pc \in CycPcs =>
                /\ meshSource.nGeometricD = 2
                /\ type = "COSINE_HILL_2D" /\ nCycles = MainCycles
                /\ Analyses >= 1 /\ calls.fwd >= 1
                /\ CtorVars[1] = "meshToMeshInterp"
            /\ pc = "main_cyclic" => Analyses = 1 /\ calls.fwd = 1
            /\ pc \in {"main_end", "done"} =>
                IF meshSource.nGeometricD = 2
                THEN /\ Analyses = 2
                     /\ CtorVars = <<"meshToMeshInterp", "meshSourceToTarget",
                                     "meshTargetToSource">>
                     /\ calls.fwd = 1 + MainCycles
                     /\ calls.bwd = MainCycles - 1
                ELSE /\ Analyses = 1
                     /\ CtorVars = <<"meshToMeshInterp">>
                     /\ calls.fwd = 1 /\ calls.bwd = 0
        /\ ~testOnly =>
            /\ pc \notin TmePcs \cup CycPcs \cup {"main_cyclic"}
            /\ fieldSource = NoField /\ fieldTarget = NoField
            /\ gfieldSource = NoField /\ gfieldTarget = NoField
            /\ type = "" /\ Analyses = 0
            /\ pc \in {"main_end", "done"} =>
                /\ CtorVars = <<"meshToMeshInterp">>
                /\ calls.fwd = Len(written)
                /\ calls.bwd = 0
\* main has ended after both test routines on a two-dimensional source mesh
C12_Witness ==
    /\ entry = "main" /\ pc = "done" /\ testOnly
    /\ meshSource.nGeometricD = 2
    /\ calls.fwd = 1 + MainCycles /\ Analyses = 2
\* main has ended after testMappingError alone, and after production mapping
C12_WitnessThreeD ==
    /\ entry = "main" /\ pc = "done" /\ testOnly
    /\ meshSource.nGeometricD = 3 /\ calls.fwd = 1
C12_WitnessProduction ==
    /\ entry = "main" /\ pc = "done" /\ ~testOnly
    /\ Len(written) = 2

\* field g is field f but for its boundary-face values; the volume-weighted
\* integral over its mesh is then the same
SameButBoundary(f, g) ==
    /\ [g EXCEPT !.boundary = f.boundary] = f
    /\ g.internal = f.internal
    /\ gSumV(g.mesh, g.internal) = gSumV(f.mesh, f.internal)
\* a step that is the call of initBoundaryFields on the source handle, on the
\* target handle, of the unit-level calls
UnitBoundaryCall(which) ==
    /\ pc = "unit" /\ unit'.steps = unit.steps + 1
    /\ unit'.op = "initBoundaryFields" /\ unit'.which = which

\* what a step that calls initBoundaryFields with a valid kind leaves alone
BoundaryCallFrame ==
    type \in Kinds =>
        /\ UnitBoundaryCall("source") =>
            /\ SameButBoundary(fieldSource, fieldSource')
            /\ UNCHANGED <<fieldTarget, gfieldSource, gfieldTarget>>
        /\ UnitBoundaryCall("target") =>
            /\ SameButBoundary(fieldTarget, fieldTarget')
            /\ UNCHANGED <<fieldSource, gfieldSource, gfieldTarget>>
        /\ pc \in {"cyc_bc0", "cyc_bc1", "cyc_bc2"} =>
            /\ SameButBoundary(fieldSource, fieldSource')
            /\ SameButBoundary(fieldTarget, fieldTarget')
            /\ UNCHANGED <<gfieldSource, gfieldTarget>>
\* C13: for a valid kind a call of initBoundaryFields leaves the field as it
\* was but for its boundary-face values: every cell value and with it the
\* volume-weighted integral are unchanged, and the gradient fields and the
\* field of the other mesh are untouched; in testCyclicRemap the pair of calls
\* after an interpolation leaves the cell values of both fields, their
\* integrals and both gradient fields unchanged.
C13_BoundaryOnly == [][BoundaryCallFrame]_vars
\* after a backward interpolation left 10.0 and 0.0 in the cells of the source
\* field and one value on all its faces, the boundary has been re-asserted:
\* the faces hold the LINEAR values, the cells what the interpolation left
C13_Witness ==
    /\ pc = "cyc_loop" /\ i = 2 /\ type = "LINEAR"
    /\ meshSource = MeshA
    /\ fieldSource.internal = <<Fix(10), 0>>
    /\ fieldSource.boundary = AnalyticBoundary(meshSource, type)
    /\ \A bv \in BoundaryFills(meshSource, InterpVals) :
        fieldSource.boundary # bv

\* the table of the analytic field model: the exact gradient of a kind at x,
\* in the units of cellGrad; the hill's is defined away from its centre only
AnalyticGradient(kind, x) ==
    CASE kind = "CONSTANT" -> [u |-> "1", v |-> <<0, 0, 0>>]
      [] kind = "LINEAR" -> [u |-> "1", v |-> <<2, 3, 1>>]
      [] kind = "SINUSOID_2D" ->
            [u |-> "2pi",
             v |-> <<Cos2Pi(x[1]) * Sin2Pi(x[2]),
                     Sin2Pi(x[1]) * Cos2Pi(x[2]), 0>>]
      [] kind = "SINUSOID_3D" ->
            [u |-> "2pi",
             v |-> <<Cos2Pi(x[1]) * Sin2Pi(x[2]) * Sin2Pi(x[3]),
                     Sin2Pi(x[1]) * Cos2Pi(x[2]) * Sin2Pi(x[3]),
                     Sin2Pi(x[1]) * Sin2Pi(x[2]) * Cos2Pi(x[3])>>]
      [] kind = "COSINE_HILL_2D" ->
            LET rL == ISqrt(2 * magSqr3(x))
            IN  [u |-> "pi",
                 v |-> [k \in 1..3 |->
                            (-(2 * Sin2Pi(rL \div 2) * x[k])) \div rL]]
\* gradient values g are those built at start on the mesh: the analytic
\* gradient at every cell centre away from the hill centre, and at a cell on
\* the hill centre what the build left there
StartGradient(g, mesh) ==
    /\ g = initTestField(mesh, type, TRUE, "nan").tgField.internal
    /\ \A c \in CellIds(mesh) :
        ~(type = "COSINE_HILL_2D" /\ magSqr3(mesh.C[c]) = 0)
            => g[c] = AnalyticGradient(type, mesh.C[c])
\* the arguments of the last interpolation call of testCyclicRemap
CallArguments ==
    (pc \in CycAfterCtor /\ Fwd + Bwd >= 1) =>
        LET l == calls.last
        IN  /\ l.source \in {"fieldSource", "fieldTarget"}
            /\ l.target # l.source /\ l.targetMesh # l.sourceMesh
            /\ l.source = "fieldSource" =>
                /\ l.target = "fieldTarget"
                /\ l.grad = "gfieldSource"
                /\ StartGradient(l.gradValue, meshSource)
                /\ l.sourceMesh = meshSource.name /\ l.mapperSrc = l.sourceMesh
                /\ l.targetMesh = meshTarget.name /\ l.mapperTgt = l.targetMesh
            /\ l.source = "fieldTarget" =>
                /\ l.target = "fieldSource"
                /\ l.grad = "gfieldTarget"
                /\ StartGradient(l.gradValue, meshTarget)
                /\ l.sourceMesh = meshTarget.name /\ l.mapperSrc = l.sourceMesh
                /\ l.targetMesh = meshSource.name /\ l.mapperTgt = l.targetMesh
\* no step of testCyclicRemap after a gradient field is built changes it
GradientsKept ==
    /\ pc \in CycAfterSource \ {"cyc_return"} => UNCHANGED gfieldSource
    /\ pc \in CycAfterSource \ {"cyc_target", "cyc_return"} =>
        UNCHANGED gfieldTarget

\* C14: in testCyclicRemap no step after initialisation writes a gradient
\* field; every forward interpolation is passed the gradient built at start
\* on the source mesh and every backward one the gradient built at start on
\* the target mesh, whatever the scalar fields have become; and in every call
\* the target field and the source field are different fields, on the
\* mapper's target mesh and on its source mesh.
C14_GradientsFixed == [][GradientsKept]_vars /\ []CallArguments
\* the second backward interpolation has been made from a target field that
\* no longer holds the LINEAR values, with the gradient (2, 3, 1) built at
\* start on the target mesh
C14_Witness ==
    /\ pc = "cyc_bc1" /\ Bwd = 2 /\ type = "LINEAR"
    /\ fieldTarget.internal # AnalyticInternal(meshTarget, type)
    /\ calls.last.grad = "gfieldTarget"
    /\ calls.last.gradValue = gfieldTarget.internal
    /\ \A c \in CellIds(meshTarget) :
        calls.last.gradValue[c] = [u |-> "1", v |-> <<2, 3, 1>>]
=============================================================================
